---- MODULE Spec2Model ----
(***************************************************************************)
(* Model of the real-time mailbox synchronisation engine of deskmate:      *)
(*   backend/services/imap_idle_service.py  IMAPIdleListener (one session  *)
(*       loop per listener object) and IMAPIdleManager (the registry),    *)
(*   backend/services/email_service.py      sync_messages (the second      *)
(*       ingestion path),                                                  *)
(*   backend/models/database.py             the email_messages and         *)
(*       email_attachments tables.                                         *)
(* One account id is modelled; listener objects are numbered in the order  *)
(* start_listening constructs them, so that a stopped listener whose       *)
(* thread has not ended yet and its successor live side by side.  The IMAP *)
(* server, the network and the storage engine are the environment.         *)
(***************************************************************************)
EXTENDS Naturals, Integers, Sequences, FiniteSets, TLC

\* ------------------------------------------------------------------ bounds
MaxListeners == 2      \* listener objects start_listening may construct
MaxUid == 3            \* highest uid the server assigns
MaxAtts == 1           \* attachments a message may carry
MaxCallers == 2        \* threads that call mark_as_read
MaxConns == 2          \* operate connections opened
MaxParts == 2          \* leaf parts of a message handed to parse_email_content

\* ------------------------------------------------------- program constants
max_retries == 5
retry_delay == 5
SyncWindow == 20
BodyLimit == 10000
HtmlLimit == 50000

Account == "acc1"
Inst == 1 .. MaxListeners
Uids == 1 .. MaxUid
NoListener == 0        \* account_id not in self.listeners
None == 0              \* last_processed_uid is None
Callers == 1 .. MaxCallers
NoCaller == 0          \* operation_lock is free
NoConn == 0            \* operation_conn is None

VARIABLES
    \* IMAPIdleManager
    listeners,          \* self.listeners[Account]: NoListener or a listener object
    mgr_pc,             \* where the thread holding self.lock stands
    \* IMAPIdleListener, one entry per listener object
    running,            \* self.running
    pc,                 \* position of the idle_loop thread ("none": not constructed)
    idle_conn,          \* self.idle_conn, by the state of the connection
    supports_idle,      \* self.supports_idle
    retry_count,        \* idle_loop's local retry_count
    last_processed_uid, \* self.last_processed_uid (None = 0)
    new_uids,           \* the uids of the SEARCH answer still to be processed
    notify,             \* unread EXISTS data waits on the watch socket
    idle_out,           \* an IDLE is outstanding on the watch connection
    status,             \* last status this loop handed to on_status_change
    operation_conn,     \* self.operation_conn: NoConn or the number of a connection
    operation_lock,     \* self.operation_lock: NoCaller or the thread that holds it
    \* threads inside mark_as_read, one entry per caller
    op_pc,              \* position of the caller in mark_as_read
    op_tgt,             \* the listener object the call is made on
    op_via,             \* TRUE: the call came through IMAPIdleManager.mark_as_read
    op_conn,            \* the local `conn` of IMAPIdleListener.mark_as_read
    op_ret,             \* how the caller's last call ended
    op_answer,          \* the server's answer to the caller's last UID STORE
    conn_open,          \* operate connections whose socket is open
    conns_made,         \* operate connections opened so far
    \* environment: the account's INBOX on the server
    mailbox,            \* uids of the messages present
    uidnext,            \* next uid the server assigns
    seed,               \* value a session's cursor is constructed with
    \* storage
    messages,           \* rows of email_messages
    attachments,        \* rows of email_attachments
    \* observation (history) variables
    new_email_count,    \* uid -> new_email events handed to the sink
    failed_connects,    \* consecutive connect() calls that returned False
    batch_uids,         \* the SEARCH answer of the batch in progress / just ended
    batch_log,          \* what happened to each uid of that batch
    first_start,        \* registry and thread count as the spawning start left them
    last_sleep,         \* seconds of the time.sleep since the last connect() call
    sync_hits,          \* stored rows the last sync_messages run had inserts ignored against
    expired,            \* the last IDLE wait since connect() ended on its 29 minutes
    \* environment: the event sink behind socketio.emit
    sink,               \* "ok", "failing" (emit raises) or "blocked" (emit does not return)
    \* one call of parse_email_content
    msg_parts,          \* the leaf parts of msg that walk_parts has reached, in order
    body,               \* body: the parts whose text it is made of, in order
    body_html,          \* body_html, likewise
    parsed_attachments, \* attachments
    inline_images,      \* inline_images: {[key, part]}, one entry per key
    part_class,         \* how parse_part returned for each leaf so far
    html_refs,          \* the cid: references and URLs in body_html, in order
    files,              \* files written under INLINE_IMAGES_DIR: {[name, data]}
    returned            \* parse_email_content has returned

mgr_vars == <<listeners, mgr_pc>>
lsn_vars == <<running, pc, idle_conn, supports_idle, retry_count, last_processed_uid,
              new_uids, notify, idle_out, status>>
env_vars == <<mailbox, uidnext, seed>>
db_vars == <<messages, attachments>>
obs_vars == <<new_email_count, failed_connects, batch_uids, batch_log, first_start>>
op_vars == <<operation_conn, operation_lock, op_pc, op_tgt, op_via, op_conn, op_ret, op_answer,
             conn_open, conns_made>>
aux_vars == <<last_sleep, sync_hits, sink, expired>>
parse_vars == <<msg_parts, body, body_html, parsed_attachments,
                inline_images, part_class, html_refs, files, returned>>
vars == <<mgr_vars, lsn_vars, env_vars, db_vars, obs_vars, op_vars, aux_vars,
          parse_vars>>

\* ------------------------------------------------------------------ helpers
Max(S) == CHOOSE x \in S : \A y \in S : y <= x
Min(S) == CHOOSE x \in S : \A y \in S : x <= y

RECURSIVE Ascending(_)
\* the elements of a finite set of numbers, smallest first
Ascending(S) == IF S = {} THEN <<>> ELSE <<Min(S)>> \o Ascending(S \ {Min(S)})

Range(s) == {s[k] : k \in DOMAIN s}

\* threads of listener objects that were started and have not ended
Alive == {i \in Inst : pc[i] \notin {"none", "done"}}
Spawned == Cardinality({i \in Inst : pc[i] # "none"})

\* ---------------------------------------------------------------- IMAP server
\* Answer of the server to  UID SEARCH UID c+1:*  on the selected INBOX.  "*" is
\* the highest uid present, and a range is unordered, so the answer always
\* holds the last message of a non-empty mailbox (RFC 3501, 6.4.8 and 9).
SearchAbove(c) ==
    IF mailbox = {} THEN <<>>
    ELSE LET top == Max(mailbox)
             lo == IF c + 1 <= top THEN c + 1 ELSE top
             hi == IF c + 1 <= top THEN top ELSE c + 1
         IN  Ascending({u \in mailbox : lo <= u /\ u <= hi})

\* Answer to  UID SEARCH UNSEEN : no message of the model carries \Seen
SearchUnseen == Ascending(mailbox)

\* email_uids[-20:]
LastN(s, n) == IF Len(s) <= n THEN s ELSE SubSeq(s, Len(s) - n + 1, Len(s))

\* attachment parts of the message the server holds under uid u
NumAtts(u) == u % (MaxAtts + 1)

\* A text is known by what it is cut from and by its length: [src, len] is the
\* first len characters of src.  The plain and the html text either path parses
\* out of message u are one below, at and above the stored limit.
ParsedBody(via, u) == [src |-> <<via, u, "plain">>, len |-> BodyLimit + 2 - u]
ParsedHtml(via, u) == [src |-> <<via, u, "html">>, len |-> HtmlLimit + 2 - u]

KeepsAll(text, limit) == text
\* text[:limit]
Truncate(text, limit) == [src |-> text.src, len |-> Min({text.len, limit})]

\* a is b[:n] for some n
IsPrefixOf(a, b) == a.src = b.src /\ a.len <= b.len

\* -------------------------------------------------------------------- storage
\* uuid.uuid4(): an identifier no stored row carries.  Identifiers are only ever
\* compared, so the fresh one is named after what it is generated for and the
\* number of rows the key already has.
FreshId(rows, via, u) ==
    <<via, u, Cardinality({r \in rows : r.account_id = Account /\ r.uid = u})>>

ConflictsOnIdOnly(rows, row) == \E r \in rows : r.id = row.id
\* the constraints of email_messages: id PRIMARY KEY, UNIQUE(account_id, uid)
Conflicts(rows, row) ==
    \E r \in rows : \/ r.id = row.id
                    \/ (r.account_id = row.account_id /\ r.uid = row.uid)

InsertOrReplace(rows, row) ==
    {r \in rows : ~(r.id = row.id \/ (r.account_id = row.account_id /\ r.uid = row.uid))}
        \cup {row}
\* INSERT OR IGNORE INTO email_messages: the table after the statement
InsertOrIgnore(rows, row) == IF Conflicts(rows, row) THEN rows ELSE rows \cup {row}

\* cursor.rowcount of that statement
RowCount(rows, row) == IF InsertOrIgnore(rows, row) = rows THEN 0 ELSE 1

\* IMAPIdleManager.save_email_to_db: [saved, rows]; db_ok = FALSE is an exception
\* of the storage engine (caught, returns False)
SaveEmailToDb(email_data, db_ok) ==
    IF ~db_ok THEN [saved |-> FALSE, rows |-> messages]
    ELSE IF RowCount(messages, email_data) > 0
         THEN [saved |-> TRUE, rows |-> InsertOrIgnore(messages, email_data)]
         ELSE [saved |-> FALSE, rows |-> messages]

RowsOf(u) == {r \in messages : r.account_id = Account /\ r.uid = u}
AttachmentRowsOf(r) == {a \in attachments : a.message_id = r.id}

\* ----------------------------------------------------------------------- Init
InitCommon ==
    /\ listeners = NoListener
    /\ mgr_pc = "idle"
    /\ running = [i \in Inst |-> FALSE]
    /\ pc = [i \in Inst |-> "none"]
    /\ idle_conn = [i \in Inst |-> "None"]
    /\ supports_idle = [i \in Inst |-> TRUE]
    /\ retry_count = [i \in Inst |-> 0]
    /\ last_processed_uid = [i \in Inst |-> None]
    /\ new_uids = [i \in Inst |-> <<>>]
    /\ notify = [i \in Inst |-> FALSE]
    /\ idle_out = [i \in Inst |-> FALSE]
    /\ status = [i \in Inst |-> "none"]
    /\ messages = {}
    /\ attachments = {}
    /\ new_email_count = [u \in Uids |-> 0]
    /\ failed_connects = [i \in Inst |-> 0]
    /\ batch_uids = [i \in Inst |-> <<>>]
    /\ batch_log = [i \in Inst |-> <<>>]
    /\ first_start = [inst |-> NoListener, spawned |-> 0]
    /\ operation_conn = [i \in Inst |-> NoConn]
    /\ operation_lock = [i \in Inst |-> NoCaller]
    /\ op_pc = [c \in Callers |-> "idle"]
    /\ op_tgt = [c \in Callers |-> NoListener]
    /\ op_via = [c \in Callers |-> FALSE]
    /\ op_conn = [c \in Callers |-> NoConn]
    /\ op_ret = [c \in Callers |-> "none"]
    /\ op_answer = [c \in Callers |-> "none"]
    /\ conn_open = {}
    /\ conns_made = 0
    /\ last_sleep = [i \in Inst |-> 0]
    /\ sync_hits = {}
    /\ sink = "ok"
    /\ expired = [i \in Inst |-> FALSE]
    /\ msg_parts = <<>>
    /\ body = <<>>
    /\ body_html = <<>>
    /\ parsed_attachments = <<>>
    /\ inline_images = {}
    /\ part_class = <<>>
    /\ html_refs = <<>>
    /\ files = {}
    /\ returned = FALSE

\* The program as it is: a listener is constructed with last_processed_uid = None
\* and the INBOX starts empty.
Init ==
    /\ InitCommon
    /\ seed = None
    /\ mailbox = {}
    /\ uidnext = 1

\* The same, or a session whose cursor already holds the uid of the first
\* message: that message is on the server and not stored yet.
InitIngest ==
    /\ InitCommon
    /\ seed \in {None, 1}
    /\ mailbox = 1 .. seed
    /\ uidnext = seed + 1

\* ------------------------------------------------------------ IMAPIdleManager
RegisteredNever == FALSE
\* `if account_id in self.listeners`
Registered == listeners # NoListener

\* IMAPIdleManager.is_listening
IsListening == Registered /\ running[listeners]

\* IMAPIdleManager.get_status(account_id)
GetStatus == IF Registered /\ running[listeners] THEN "listening" ELSE "stopped"

\* a thread is inside `with self.lock:`
LockHeld == mgr_pc # "idle"

\* start_listening up to listener.start(); acct is the answer of the account
\* store, cap bounds the listener objects constructed
StartListening(acct, cap) ==
    /\ mgr_pc = "idle"
    /\ IF Registered
       THEN /\ mgr_pc' = "start_noop"
            /\ UNCHANGED <<listeners, lsn_vars, first_start>>
       ELSE IF acct # "found"
       THEN UNCHANGED <<mgr_vars, lsn_vars, first_start>>
       ELSE /\ Spawned < cap
            /\ LET i == Spawned + 1 IN
               /\ listeners' = i
               /\ running' = [running EXCEPT ![i] = TRUE]
               /\ pc' = [pc EXCEPT ![i] = "top"]
               /\ last_processed_uid' = [last_processed_uid EXCEPT ![i] = seed]
               /\ first_start' = [inst |-> i, spawned |-> Spawned + 1]
            /\ mgr_pc' = "start_emit"
            /\ UNCHANGED <<idle_conn, supports_idle, retry_count, new_uids, notify, idle_out,
                           status>>
    /\ UNCHANGED <<env_vars, db_vars, new_email_count, failed_connects,
                   batch_uids, batch_log>>
    /\ UNCHANGED op_vars
    /\ UNCHANGED parse_vars
    /\ UNCHANGED aux_vars

\* start_listening from self.on_status_change(account_id, 'connecting') to return
StartEmit ==
    /\ mgr_pc = "start_emit"
    /\ mgr_pc' = "idle"
    /\ UNCHANGED <<listeners, running, pc, idle_conn, supports_idle, retry_count,
                   last_processed_uid, new_uids, notify, idle_out, status>>
    /\ UNCHANGED <<env_vars, db_vars, obs_vars>>
    /\ UNCHANGED op_vars
    /\ UNCHANGED parse_vars
    /\ UNCHANGED aux_vars

\* `return True` for a registered account: the lock is released
StartReturn ==
    /\ mgr_pc = "start_noop"
    /\ mgr_pc' = "idle"
    /\ UNCHANGED <<listeners, lsn_vars, env_vars, db_vars, obs_vars>>
    /\ UNCHANGED op_vars
    /\ UNCHANGED parse_vars
    /\ UNCHANGED aux_vars

\* stop_listening up to `self.running = False` of IMAPIdleListener.stop
StopListening ==
    /\ mgr_pc = "idle"
    /\ Registered
    /\ running' = [running EXCEPT ![listeners] = FALSE]
    /\ mgr_pc' = "stop_close"
    /\ UNCHANGED <<listeners, pc, idle_conn, supports_idle, retry_count,
                   last_processed_uid, new_uids, notify, idle_out, status>>
    /\ UNCHANGED <<env_vars, db_vars, obs_vars>>
    /\ UNCHANGED op_vars
    /\ UNCHANGED parse_vars
    /\ UNCHANGED aux_vars

\* the rest of IMAPIdleListener.stop (idle_done and logout on the watch
\* connection if there is one, then self.idle_conn = None; then
\* release_operation_connection, which waits for operation_lock) and the del
StopClose ==
    /\ mgr_pc = "stop_close"
    /\ operation_lock[listeners] = NoCaller
    /\ conn_open' = conn_open \ {operation_conn[listeners]}
    /\ operation_conn' = [operation_conn EXCEPT ![listeners] = NoConn]
    /\ UNCHANGED <<operation_lock, op_pc, op_tgt, op_via, op_conn, op_ret, op_answer, conns_made>>
    /\ idle_conn' = [idle_conn EXCEPT ![listeners] = "None"]
    /\ idle_out' = [idle_out EXCEPT ![listeners] = FALSE]
    /\ listeners' = NoListener
    /\ mgr_pc' = "idle"
    /\ first_start' = [inst |-> NoListener, spawned |-> 0]
    /\ UNCHANGED <<running, pc, supports_idle, retry_count, last_processed_uid,
                   new_uids, notify, status>>
    /\ UNCHANGED <<env_vars, db_vars, new_email_count, failed_connects,
                   batch_uids, batch_log>>
    /\ UNCHANGED aux_vars
    /\ UNCHANGED parse_vars

\* ----------------------------------------------------------- IMAPIdleListener
ConnectOutcomes == {"refused", "login_failed", "select_failed", "ok"}

\* what connect() leaves in self.idle_conn: the object is assigned before login,
\* so only a failure of the IMAP4_SSL_IDLE constructor leaves the field alone
ConnAfterConnect(old, outcome) ==
    CASE outcome = "refused" -> old
      [] outcome = "login_failed" -> "nonauth"
      [] outcome = "select_failed" -> "auth"
      [] outcome = "ok" -> "selected"

\* imaplib accepts SEARCH and FETCH only in state SELECTED, and the socket must live
CanCommand(c) == c = "selected"
\* IDLE is answered with "+" once logged in
CanIdle(c) == c \in {"auth", "selected"}
\* SELECT needs a logged-in, living connection
CanSelect(c) == c \in {"auth", "selected"}

\* `if self.last_processed_uid:` guarding both searches
HasCursor(c) == c # None

\* the answer idle_loop takes from `UID SEARCH UID cursor+1:*` (an exception or a
\* status other than OK leaves nothing to process)
SearchNew(i) ==
    IF ~HasCursor(last_processed_uid[i]) THEN <<>>
    ELSE IF CanCommand(idle_conn[i]) THEN SearchAbove(last_processed_uid[i])
    ELSE <<>>

\* the record fetch_new_email returns for message u (lines 244-262)
EmailData(u) ==
    [id |-> FreshId(messages, "idle", u), account_id |-> Account, uid |-> u,
     body |-> Truncate(ParsedBody("idle", u), BodyLimit),
     body_html |-> Truncate(ParsedHtml("idle", u), HtmlLimit),
     attachments |-> {}, is_read |-> 0, via |-> "idle"]

\* fetch_new_email: the parsed record, as a one-element set; None is NoEmail
NoEmail == {}
FetchNewEmail(i, u, fetch_ok) ==
    IF CanCommand(idle_conn[i]) /\ u \in mailbox /\ fetch_ok
    THEN {EmailData(u)}
    ELSE NoEmail

EmitsAlways(saved) == TRUE
\* `if saved:` of on_new_email
EmitsNewEmail(saved) == saved

CursorKept(old, u, email_data) == old
\* the cursor after one uid of the batch was handled (lines 299-301)
CursorAfter(old, u, email_data) == IF email_data # NoEmail THEN u ELSE old

\* the cancellation flag as the loop reads it: `while self.running`, the inner
\* `while self.running and ...`, `if not self.running: break`, `if self.running:`
ShouldRunForever(i) == TRUE
ShouldRun(i) == running[i]

RetriesOffByOne(n) == n > max_retries
\* `retry_count >= max_retries` after a failed connect
RetriesExhausted(n) == n >= max_retries

NeedsConnectAlways(c) == TRUE
\* `if not self.idle_conn:` (line 275)
NeedsConnect(c) == c = "None"

\* `while self.running:` and `if not self.idle_conn:` (lines 273-276)
LoopTop(i) ==
    /\ pc[i] = "top"
    /\ IF ~ShouldRun(i)
       THEN /\ pc' = [pc EXCEPT ![i] = "exit"]
            /\ UNCHANGED status
       ELSE IF NeedsConnect(idle_conn[i])
       THEN /\ status' = [status EXCEPT ![i] = "connecting"]
            /\ pc' = [pc EXCEPT ![i] = "connect"]
       ELSE /\ pc' = [pc EXCEPT ![i] = "listen"]
            /\ UNCHANGED status
    /\ UNCHANGED <<running, idle_conn, supports_idle, retry_count, last_processed_uid,
                   new_uids, notify, idle_out>>
    /\ UNCHANGED <<mgr_vars, env_vars, db_vars, obs_vars>>
    /\ UNCHANGED op_vars
    /\ UNCHANGED parse_vars
    /\ UNCHANGED aux_vars

\* `if not self.connect():` with the retry accounting (lines 277-285)
Connect(i, outcome, caps) ==
    /\ pc[i] = "connect"
    /\ idle_conn' = [idle_conn EXCEPT ![i] = ConnAfterConnect(@, outcome)]
    /\ supports_idle' = [supports_idle EXCEPT
                            ![i] = IF outcome \in {"select_failed", "ok"} THEN caps ELSE @]
    /\ IF outcome = "ok"
       THEN /\ retry_count' = [retry_count EXCEPT ![i] = 0]
            /\ failed_connects' = [failed_connects EXCEPT ![i] = 0]
            /\ pc' = [pc EXCEPT ![i] = "listen"]
            /\ UNCHANGED status
       ELSE /\ retry_count' = [retry_count EXCEPT ![i] = @ + 1]
            /\ failed_connects' = [failed_connects EXCEPT ![i] = @ + 1]
            /\ IF RetriesExhausted(retry_count[i] + 1)
               THEN /\ status' = [status EXCEPT ![i] = "error"]
                    /\ pc' = [pc EXCEPT ![i] = "exit"]
               ELSE /\ pc' = [pc EXCEPT ![i] = "backoff"]
                    /\ UNCHANGED status
    /\ UNCHANGED <<running, last_processed_uid, new_uids, notify, idle_out>>
    /\ UNCHANGED <<mgr_vars, env_vars, db_vars, new_email_count, batch_uids, batch_log,
                   first_start>>
    /\ UNCHANGED op_vars
    /\ UNCHANGED parse_vars
    /\ last_sleep' = [last_sleep EXCEPT ![i] = 0]
    /\ expired' = [expired EXCEPT ![i] = FALSE]
    /\ UNCHANGED <<sync_hits, sink>>

BackoffFlat(k) == retry_delay
\* the argument of time.sleep after the k-th failed connect in a row
BackoffDelay(k) == retry_delay * k

\* time.sleep(retry_delay * retry_count); continue (lines 283-284)
Backoff(i) ==
    /\ pc[i] = "backoff"
    /\ pc' = [pc EXCEPT ![i] = "top"]
    /\ UNCHANGED <<running, idle_conn, supports_idle, retry_count, last_processed_uid,
                   new_uids, notify, idle_out, status>>
    /\ UNCHANGED <<mgr_vars, env_vars, db_vars, obs_vars>>
    /\ UNCHANGED op_vars
    /\ UNCHANGED parse_vars
    /\ last_sleep' = [last_sleep EXCEPT ![i] = BackoffDelay(retry_count[i])]
    /\ UNCHANGED <<sync_hits, sink, expired>>

\* on_status_change('listening') and the search for missed mail (lines 287-295)
Listen(i) ==
    /\ pc[i] = "listen"
    /\ status' = [status EXCEPT ![i] = "listening"]
    /\ new_uids' = [new_uids EXCEPT ![i] = SearchNew(i)]
    /\ batch_uids' = [batch_uids EXCEPT ![i] = SearchNew(i)]
    /\ batch_log' = [batch_log EXCEPT ![i] = <<>>]
    /\ pc' = [pc EXCEPT ![i] = IF SearchNew(i) = <<>> THEN "mode" ELSE "batch"]
    /\ UNCHANGED <<running, idle_conn, supports_idle, retry_count, last_processed_uid,
                   notify, idle_out>>
    /\ UNCHANGED <<mgr_vars, env_vars, db_vars, new_email_count, failed_connects, first_start>>
    /\ UNCHANGED op_vars
    /\ UNCHANGED parse_vars
    /\ UNCHANGED aux_vars

\* what is left of the batch after one uid was handled: fetch_new_email returns
\* None on any failure of the fetch or the parse, and the for loop goes on
RestAbortsOnFailure(uids, email_data) == IF email_data = NoEmail THEN <<>> ELSE Tail(uids)
RestAfter(uids, email_data) == Tail(uids)

\* socketio.emit as the thread that calls it sees it: it returns, it raises
\* (caught by on_new_email) or it does not return while the sink is blocked
EmitReturns(s) == s # "blocked"
Delivered(s) == s = "ok"

\* one turn of `for uid in new_uids:` (lines 296-301 and 332-337): fetch, parse,
\* on_new_email (save, then emit if saved), advance the cursor.  The emit is a
\* call of the loop thread: while the sink does not take the event the thread
\* stays inside on_new_email, with the row saved (pc "batch_emit").
ProcessUid(i, fetch_ok, db_ok) ==
    /\ pc[i] \in {"batch", "idle_batch"}
    /\ LET u == Head(new_uids[i])
           email_data == FetchNewEmail(i, u, fetch_ok)
           res == IF email_data = NoEmail THEN [saved |-> FALSE, rows |-> messages]
                  ELSE SaveEmailToDb(CHOOSE e \in email_data : TRUE, db_ok)
           emitted == email_data # NoEmail /\ EmitsNewEmail(res.saved)
           outcome == IF email_data = NoEmail THEN "nofetch"
                      ELSE IF ~db_ok THEN "dberr"
                      ELSE IF RowsOf(u) # {} THEN "dup"
                      ELSE "fresh"
           rest == RestAfter(new_uids[i], email_data)
       IN  /\ messages' = res.rows
           /\ IF emitted /\ ~EmitReturns(sink)
              THEN /\ pc' = [pc EXCEPT ![i] = IF @ = "batch" THEN "batch_emit"
                                               ELSE "idle_batch_emit"]
                   /\ UNCHANGED <<new_email_count, last_processed_uid, batch_log,
                                  new_uids>>
              ELSE /\ new_email_count' = [new_email_count EXCEPT
                          ![u] = IF emitted /\ Delivered(sink) THEN @ + 1 ELSE @]
                   /\ last_processed_uid' = [last_processed_uid EXCEPT
                                                ![i] = CursorAfter(@, u, email_data)]
                   /\ batch_log' = [batch_log EXCEPT ![i] = Append(@,
                          [uid |-> u, outcome |-> outcome, emitted |-> emitted])]
                   /\ new_uids' = [new_uids EXCEPT ![i] = rest]
                   /\ pc' = [pc EXCEPT ![i] = IF rest # <<>> THEN @
                                ELSE IF @ = "batch" THEN "mode" ELSE "reidle"]
    /\ UNCHANGED <<running, idle_conn, supports_idle, retry_count, notify, idle_out, status>>
    /\ UNCHANGED <<mgr_vars, env_vars, attachments, failed_connects,
                   batch_uids, first_start>>
    /\ UNCHANGED op_vars
    /\ UNCHANGED parse_vars
    /\ UNCHANGED aux_vars

\* socketio.emit('new_email', ...) returns or raises inside on_new_email, and the
\* turn of the for loop that called it ends: the cursor moves to the uid
EmitReturn(i) ==
    /\ pc[i] \in {"batch_emit", "idle_batch_emit"}
    /\ EmitReturns(sink)
    /\ LET u == Head(new_uids[i])
           rest == Tail(new_uids[i])
       IN  /\ new_email_count' = [new_email_count EXCEPT
                  ![u] = IF Delivered(sink) THEN @ + 1 ELSE @]
           /\ last_processed_uid' = [last_processed_uid EXCEPT ![i] = u]
           /\ batch_log' = [batch_log EXCEPT ![i] = Append(@,
                  [uid |-> u, outcome |-> "fresh", emitted |-> TRUE])]
           /\ new_uids' = [new_uids EXCEPT ![i] = rest]
           /\ pc' = [pc EXCEPT ![i] = IF rest # <<>>
                        THEN (IF @ = "batch_emit" THEN "batch" ELSE "idle_batch")
                        ELSE IF @ = "batch_emit" THEN "mode" ELSE "reidle"]
    /\ UNCHANGED <<running, idle_conn, supports_idle, retry_count, notify, idle_out, status>>
    /\ UNCHANGED <<mgr_vars, env_vars, db_vars, failed_connects,
                   batch_uids, first_start>>
    /\ UNCHANGED op_vars
    /\ UNCHANGED parse_vars
    /\ UNCHANGED aux_vars

\* the subscribers behind socketio: they take events, fail or stop taking them
SinkChange(s) ==
    /\ sink # s
    /\ sink' = s
    /\ UNCHANGED <<mgr_vars, lsn_vars, env_vars, db_vars, obs_vars>>
    /\ UNCHANGED op_vars
    /\ UNCHANGED parse_vars
    /\ UNCHANGED <<last_sleep, sync_hits, expired>>

\* `if self.supports_idle:` and self.idle_conn.idle() (lines 305-310, 352-356)
Mode(i) ==
    /\ pc[i] = "mode"
    /\ IF supports_idle[i]
       THEN IF CanIdle(idle_conn[i])
            THEN /\ pc' = [pc EXCEPT ![i] = "idle_wait"]
                 /\ notify' = [notify EXCEPT ![i] = FALSE]
                 /\ idle_out' = [idle_out EXCEPT ![i] = TRUE]
                 /\ UNCHANGED supports_idle
            ELSE /\ supports_idle' = [supports_idle EXCEPT ![i] = FALSE]
                 /\ pc' = [pc EXCEPT ![i] = "top"]
                 /\ UNCHANGED <<notify, idle_out>>
       ELSE /\ pc' = [pc EXCEPT ![i] = "poll"]
            /\ UNCHANGED <<supports_idle, notify, idle_out>>
    /\ batch_uids' = [batch_uids EXCEPT ![i] = <<>>]
    /\ batch_log' = [batch_log EXCEPT ![i] = <<>>]
    /\ UNCHANGED <<running, idle_conn, retry_count, last_processed_uid, new_uids, status>>
    /\ UNCHANGED <<mgr_vars, env_vars, db_vars, new_email_count, failed_connects, first_start>>
    /\ UNCHANGED op_vars
    /\ UNCHANGED parse_vars
    /\ UNCHANGED aux_vars

\* one turn of the inner `while self.running and ... < timeout:` with idle_check
\* (lines 312-323): ev = "expire" is the end of the 29 minute cycle; on EXISTS
\* or RECENT data the loop sends DONE (line 323)
IdleCheck(i, ev) ==
    /\ pc[i] = "idle_wait"
    /\ IF ~ShouldRun(i) \/ ev = "expire" \/ idle_conn[i] = "None"
       THEN /\ pc' = [pc EXCEPT ![i] = "idle_exit"]
            /\ UNCHANGED <<notify, idle_out>>
       ELSE IF notify[i]
       THEN /\ notify' = [notify EXCEPT ![i] = FALSE]
            /\ idle_out' = [idle_out EXCEPT ![i] = FALSE]
            /\ pc' = [pc EXCEPT ![i] = IF idle_conn[i] = "dead" THEN "idle_exit"
                                       ELSE "notified"]
       ELSE UNCHANGED <<pc, notify, idle_out>>
    /\ UNCHANGED <<running, idle_conn, supports_idle, retry_count, last_processed_uid,
                   new_uids, status>>
    /\ UNCHANGED <<mgr_vars, env_vars, db_vars, obs_vars>>
    /\ UNCHANGED op_vars
    /\ UNCHANGED parse_vars

\* the inner while ended on `(time.time() - start_time) < timeout` (line 312)
CycleOver(i, ev) == ShouldRun(i) /\ ev = "expire"

IdleWait(i, ev) == IdleCheck(i, ev) /\ UNCHANGED aux_vars

\* the same turn, with the reason the wait ended kept
IdleWaitObserved(i, ev) ==
    /\ IdleCheck(i, ev)
    /\ expired' = [expired EXCEPT ![i] = CycleOver(i, ev)]
    /\ UNCHANGED <<last_sleep, sync_hits, sink>>

\* after idle_done(): the search on a new-mail notification (lines 325-331)
Notified(i) ==
    /\ pc[i] = "notified"
    /\ new_uids' = [new_uids EXCEPT ![i] = SearchNew(i)]
    /\ batch_uids' = [batch_uids EXCEPT ![i] = SearchNew(i)]
    /\ batch_log' = [batch_log EXCEPT ![i] = <<>>]
    /\ pc' = [pc EXCEPT ![i] = IF SearchNew(i) = <<>> THEN "reidle" ELSE "idle_batch"]
    /\ UNCHANGED <<running, idle_conn, supports_idle, retry_count, last_processed_uid,
                   notify, idle_out, status>>
    /\ UNCHANGED <<mgr_vars, env_vars, db_vars, new_email_count, failed_connects, first_start>>
    /\ UNCHANGED op_vars
    /\ UNCHANGED parse_vars
    /\ UNCHANGED aux_vars

\* self.idle_conn.idle(); break (lines 341-342): the break leaves the for over
\* the responses, and the inner while goes on; an idle() that raises (the server
\* did not answer "+", or there is no connection) leaves the while (lines 343-345)
ReIdle(i, accepted) ==
    /\ pc[i] = "reidle"
    /\ IF accepted /\ CanIdle(idle_conn[i])
       THEN /\ pc' = [pc EXCEPT ![i] = "idle_wait"]
            /\ idle_out' = [idle_out EXCEPT ![i] = TRUE]
       ELSE /\ pc' = [pc EXCEPT ![i] = "idle_exit"]
            /\ UNCHANGED idle_out
    /\ batch_uids' = [batch_uids EXCEPT ![i] = <<>>]
    /\ batch_log' = [batch_log EXCEPT ![i] = <<>>]
    /\ UNCHANGED <<running, idle_conn, supports_idle, retry_count, last_processed_uid,
                   new_uids, notify, status>>
    /\ UNCHANGED <<mgr_vars, env_vars, db_vars, new_email_count, failed_connects, first_start>>
    /\ UNCHANGED op_vars
    /\ UNCHANGED parse_vars
    /\ UNCHANGED aux_vars

\* `if self.idle_conn: idle_done()` after the inner loop (lines 347-351)
IdleExit(i) ==
    /\ pc[i] = "idle_exit"
    /\ pc' = [pc EXCEPT ![i] = "top"]
    /\ notify' = [notify EXCEPT ![i] = FALSE]
    /\ idle_out' = [idle_out EXCEPT ![i] = FALSE]
    /\ UNCHANGED <<running, idle_conn, supports_idle, retry_count, last_processed_uid,
                   new_uids, status>>
    /\ UNCHANGED <<mgr_vars, env_vars, db_vars, obs_vars>>
    /\ UNCHANGED op_vars
    /\ UNCHANGED parse_vars
    /\ UNCHANGED aux_vars

\* the poll branch (lines 356-365): sleep poll_interval seconds in steps of one,
\* then, if still running, select('INBOX'); an exception sets idle_conn = None
Poll(i) ==
    /\ pc[i] = "poll"
    /\ idle_conn' = [idle_conn EXCEPT
                        ![i] = IF ~ShouldRun(i) THEN @
                               ELSE IF CanSelect(@) THEN "selected" ELSE "None"]
    /\ pc' = [pc EXCEPT ![i] = "top"]
    /\ UNCHANGED <<running, supports_idle, retry_count, last_processed_uid, new_uids,
                   notify, idle_out, status>>
    /\ UNCHANGED <<mgr_vars, env_vars, db_vars, obs_vars>>
    /\ UNCHANGED op_vars
    /\ UNCHANGED parse_vars
    /\ UNCHANGED aux_vars

\* on_status_change('stopped') after the loop (line 386)
Exit(i) ==
    /\ pc[i] = "exit"
    /\ status' = [status EXCEPT ![i] = "stopped"]
    /\ pc' = [pc EXCEPT ![i] = "done"]
    /\ UNCHANGED <<running, idle_conn, supports_idle, retry_count, last_processed_uid,
                   new_uids, notify, idle_out>>
    /\ UNCHANGED <<mgr_vars, env_vars, db_vars, obs_vars>>
    /\ UNCHANGED op_vars
    /\ UNCHANGED parse_vars
    /\ UNCHANGED aux_vars

\* ---------------------------------------------------------------- environment
\* a message is delivered; a session waiting in IDLE on the selected INBOX gets
\* the untagged EXISTS on its socket
Arrive ==
    /\ uidnext <= MaxUid
    /\ mailbox' = mailbox \cup {uidnext}
    /\ uidnext' = uidnext + 1
    /\ notify' = [i \in Inst |->
                     notify[i] \/ (pc[i] = "idle_wait" /\ idle_conn[i] = "selected")]
    /\ UNCHANGED <<running, pc, idle_conn, supports_idle, retry_count,
                   last_processed_uid, new_uids, idle_out, status, seed>>
    /\ UNCHANGED <<mgr_vars, db_vars, obs_vars>>
    /\ UNCHANGED op_vars
    /\ UNCHANGED parse_vars
    /\ UNCHANGED aux_vars

\* another client expunges a message
Expunge(u) ==
    /\ u \in mailbox
    /\ mailbox' = mailbox \ {u}
    /\ UNCHANGED <<uidnext, seed>>
    /\ UNCHANGED <<mgr_vars, lsn_vars, db_vars, obs_vars>>
    /\ UNCHANGED op_vars
    /\ UNCHANGED parse_vars
    /\ UNCHANGED aux_vars

\* the network drops a watch connection
Drop(i) ==
    /\ idle_conn[i] \in {"nonauth", "auth", "selected"}
    /\ idle_conn' = [idle_conn EXCEPT ![i] = "dead"]
    /\ idle_out' = [idle_out EXCEPT ![i] = FALSE]
    /\ UNCHANGED <<running, pc, supports_idle, retry_count, last_processed_uid,
                   new_uids, notify, status>>
    /\ UNCHANGED <<mgr_vars, env_vars, db_vars, obs_vars>>
    /\ UNCHANGED op_vars
    /\ UNCHANGED parse_vars
    /\ UNCHANGED aux_vars

\* -------------------------------------------------------------- sync_messages
\* the record sync_messages builds for uid u, and its attachment rows
SyncRow(rows, u) ==
    [id |-> FreshId(rows, "sync", u), account_id |-> Account, uid |-> u,
     body |-> Truncate(ParsedBody("sync", u), BodyLimit),
     body_html |-> Truncate(ParsedHtml("sync", u), HtmlLimit),
     attachments |-> {<<FreshId(rows, "sync", u), k>> : k \in 1 .. NumAtts(u)},
     is_read |-> 0, via |-> "sync"]
SyncAttachmentRows(rows, u) ==
    {[id |-> <<FreshId(rows, "sync", u), k>>, message_id |-> FreshId(rows, "sync", u)] :
        k \in 1 .. NumAtts(u)}

WritesAlways(rowcount) == TRUE
\* `if cursor.rowcount > 0:` of sync_messages
WritesAttachments(rowcount) == rowcount > 0

\* one turn of `for uid in process_uids:` (lines 200-272) on the tables db; a
\* failure of the fetch, the parse or the transaction (u \notin ok) skips the
\* message and rolls its transaction back
SyncOne(db, u, ok) ==
    IF u \in mailbox /\ u \in ok
    THEN [messages |-> InsertOrIgnore(db.messages, SyncRow(db.messages, u)),
          attachments |->
              IF WritesAttachments(RowCount(db.messages, SyncRow(db.messages, u)))
              THEN db.attachments \cup SyncAttachmentRows(db.messages, u)
              ELSE db.attachments]
    ELSE db

RECURSIVE SyncAll(_, _, _)
SyncAll(db, uids, ok) ==
    IF uids = <<>> THEN db ELSE SyncAll(SyncOne(db, Head(uids), ok), Tail(uids), ok)

\* the stored rows an insert of the run is ignored against: a run attempts each
\* uid once, so these are the rows its attempted uids had before it
SyncHits(ok) ==
    {r \in messages : /\ r.account_id = Account
                      /\ r.uid \in Range(LastN(SearchUnseen, SyncWindow))
                      /\ r.uid \in ok}

\* sync_messages: UID SEARCH UNSEEN, the last 20 uids, one transaction each
\* (the history variable sync_hits is left to SyncObserved / SyncUnobserved)
SyncMessages(ok) ==
    /\ mailbox # {}
    /\ LET db == SyncAll([messages |-> messages, attachments |-> attachments],
                         LastN(SearchUnseen, SyncWindow), ok)
       IN  /\ messages' = db.messages
           /\ attachments' = db.attachments
    /\ UNCHANGED <<mgr_vars, lsn_vars, env_vars, obs_vars>>
    /\ UNCHANGED op_vars
    /\ UNCHANGED parse_vars
    /\ UNCHANGED <<last_sleep, sink, expired>>

\* a run of sync_messages, with and without the record of its ignored inserts
SyncObserved(ok) == SyncMessages(ok) /\ sync_hits' = SyncHits(ok)
SyncUnobserved(ok) == SyncMessages(ok) /\ UNCHANGED sync_hits

\* IMAPIdleManager.on_new_email, handed the record a listener fetched for
\* message u: save_email_to_db, then the new_email event if the row was saved
OnNewEmail(u, db_ok) ==
    /\ u \in mailbox
    /\ LET res == SaveEmailToDb(EmailData(u), db_ok)
       IN  /\ messages' = res.rows
           /\ new_email_count' = [new_email_count EXCEPT
                  ![u] = IF EmitsNewEmail(res.saved) THEN @ + 1 ELSE @]
    /\ UNCHANGED <<mgr_vars, lsn_vars, env_vars, attachments, failed_connects,
                   batch_uids, batch_log, first_start>>
    /\ UNCHANGED op_vars
    /\ UNCHANGED parse_vars
    /\ UNCHANGED aux_vars

\* email_service.mark_as_read / get_message_detail: UPDATE email_messages SET
\* is_read = 1 WHERE id = ?
MarkReadLocal(r) ==
    /\ r \in messages
    /\ messages' = (messages \ {r}) \cup {[r EXCEPT !.is_read = 1]}
    /\ UNCHANGED <<mgr_vars, lsn_vars, env_vars, attachments, obs_vars>>
    /\ UNCHANGED op_vars
    /\ UNCHANGED parse_vars
    /\ UNCHANGED aux_vars

\* ---------------------------------------------------------------- mark_as_read
\* the value a mark_as_read call ends with: False without a connection, False
\* when the STORE raised (`except Exception`), True otherwise
MarkAsReadUncaught(conn, stored) ==
    IF conn = NoConn THEN "False" ELSE IF stored THEN "True" ELSE "raised"
MarkAsReadResult(conn, stored) ==
    IF conn = NoConn THEN "False" ELSE IF stored THEN "True" ELSE "False"

\* a command on an operate connection goes through only if its socket is open
OpAlive(conn) == conn \in conn_open

\* IMAPIdleManager.mark_as_read up to `with self.operation_lock:` of
\* get_operation_connection; for an account that is not registered the call
\* returns False at once
MarkViaManager(c) ==
    /\ op_pc[c] = "idle"
    /\ mgr_pc = "idle"
    /\ IF ~Registered
       THEN /\ op_ret' = [op_ret EXCEPT ![c] = "False"]
            /\ UNCHANGED <<mgr_pc, operation_lock, op_pc, op_tgt, op_via>>
       ELSE /\ operation_lock[listeners] = NoCaller
            /\ operation_lock' = [operation_lock EXCEPT ![listeners] = c]
            /\ mgr_pc' = "mark"
            /\ op_pc' = [op_pc EXCEPT ![c] = "get"]
            /\ op_tgt' = [op_tgt EXCEPT ![c] = listeners]
            /\ op_via' = [op_via EXCEPT ![c] = TRUE]
            /\ op_ret' = [op_ret EXCEPT ![c] = "none"]
    /\ op_answer' = [op_answer EXCEPT ![c] = "none"]
    /\ UNCHANGED <<listeners, operation_conn, op_conn, conn_open, conns_made>>
    /\ UNCHANGED <<lsn_vars, env_vars, db_vars, obs_vars>>
    /\ UNCHANGED aux_vars
    /\ UNCHANGED parse_vars

\* IMAPIdleListener.mark_as_read called on listener object i by a thread that
\* holds a reference to it, up to `with self.operation_lock:`
MarkDirect(c, i) ==
    /\ op_pc[c] = "idle"
    /\ pc[i] # "none"
    /\ operation_lock[i] = NoCaller
    /\ operation_lock' = [operation_lock EXCEPT ![i] = c]
    /\ op_pc' = [op_pc EXCEPT ![c] = "get"]
    /\ op_tgt' = [op_tgt EXCEPT ![c] = i]
    /\ op_via' = [op_via EXCEPT ![c] = FALSE]
    /\ op_ret' = [op_ret EXCEPT ![c] = "none"]
    /\ op_answer' = [op_answer EXCEPT ![c] = "none"]
    /\ UNCHANGED <<operation_conn, op_conn, conn_open, conns_made>>
    /\ UNCHANGED <<mgr_vars, lsn_vars, env_vars, db_vars, obs_vars>>
    /\ UNCHANGED aux_vars
    /\ UNCHANGED parse_vars

\* get_operation_connection inside the lock (lines 94-115) and `if not conn:
\* return False`: the stored connection if it answers NOOP, else a new one
OpGet(c, noop_ok, connect_ok) ==
    /\ op_pc[c] = "get"
    /\ LET i == op_tgt[c]
           cur == operation_conn[i]
           reuse == cur # NoConn /\ noop_ok /\ OpAlive(cur)
           made == ~reuse /\ connect_ok /\ conns_made < MaxConns
           conn == IF reuse THEN cur ELSE IF made THEN conns_made + 1 ELSE NoConn
       IN  /\ operation_conn' = [operation_conn EXCEPT ![i] = conn]
           /\ conn_open' = IF made THEN conn_open \cup {conn} ELSE conn_open
           /\ conns_made' = IF made THEN conns_made + 1 ELSE conns_made
           /\ operation_lock' = [operation_lock EXCEPT ![i] = NoCaller]
           /\ op_conn' = [op_conn EXCEPT ![c] = conn]
           /\ IF conn # NoConn
              THEN /\ op_pc' = [op_pc EXCEPT ![c] = "store"]
                   /\ UNCHANGED <<op_ret, mgr_pc>>
              ELSE /\ op_pc' = [op_pc EXCEPT ![c] = "idle"]
                   /\ op_ret' = [op_ret EXCEPT ![c] = MarkAsReadResult(conn, FALSE)]
                   /\ mgr_pc' = IF op_via[c] THEN "idle" ELSE mgr_pc
    /\ UNCHANGED <<listeners, op_tgt, op_via, op_answer>>
    /\ UNCHANGED <<lsn_vars, env_vars, db_vars, obs_vars>>
    /\ UNCHANGED aux_vars
    /\ UNCHANGED parse_vars

\* what a server can answer to UID STORE
StoreAnswers == {"OK", "NO", "BAD"}

\* conn.uid(...) returns the (typ, data) pair of an OK or a NO answer and raises
\* on a BAD one; line 133 binds the pair to `result` and only prints it
StoreReturns(answer) == answer \in {"OK", "NO"}

\* conn.uid('STORE', uid, '+FLAGS', '\\Seen') and the return (lines 132-139); a
\* STORE that raises (BAD answer, or a closed socket) clears self.operation_conn
OpStore(c, answer) ==
    /\ op_pc[c] = "store"
    /\ LET i == op_tgt[c]
           stored == StoreReturns(answer) /\ OpAlive(op_conn[c])
       IN  /\ operation_conn' = [operation_conn EXCEPT
                                    ![i] = IF stored THEN @ ELSE NoConn]
           /\ op_ret' = [op_ret EXCEPT ![c] = MarkAsReadResult(op_conn[c], stored)]
           /\ op_answer' = [op_answer EXCEPT
                                ![c] = IF OpAlive(op_conn[c]) THEN answer ELSE "none"]
    /\ op_pc' = [op_pc EXCEPT ![c] = "idle"]
    /\ op_conn' = [op_conn EXCEPT ![c] = NoConn]
    /\ mgr_pc' = IF op_via[c] THEN "idle" ELSE mgr_pc
    /\ UNCHANGED <<listeners, operation_lock, op_tgt, op_via, conn_open, conns_made>>
    /\ UNCHANGED <<lsn_vars, env_vars, db_vars, obs_vars>>
    /\ UNCHANGED aux_vars
    /\ UNCHANGED parse_vars

\* the transactions of one sync_messages run that succeed: all of them, or one
\* only (a run with any other outcome leaves the tables as a sequence of these)
SyncOutcomes == {mailbox} \cup {{u} : u \in mailbox}

\* ----------------------------------------------------------------------- Next
\* idle_loop while the flag is set and connects succeed: connect, search, wait
\* in IDLE or poll
LoopServe(i) ==
    \/ LoopTop(i)
    \/ \E caps \in BOOLEAN : Connect(i, "ok", caps)
    \/ Listen(i)
    \/ Mode(i)
    \/ \E ev \in {"tick", "expire"} : IdleWait(i, ev)
    \/ IdleExit(i)
    \/ Poll(i)

\* the steps that follow a notification or a non-empty search answer
LoopMail(i) ==
    \/ Notified(i)
    \/ \E accepted \in BOOLEAN : ReIdle(i, accepted)
    \/ \E fetch_ok \in BOOLEAN, db_ok \in BOOLEAN : ProcessUid(i, fetch_ok, db_ok)

\* the steps of a connect that fails
LoopRetry(i) ==
    \/ \E outcome \in ConnectOutcomes \ {"ok"}, caps \in BOOLEAN : Connect(i, outcome, caps)
    \/ Backoff(i)

\* start_listening of a caller that starts an account once
StartOnce ==
    \/ (~Registered /\ StartListening("found", 1))
    \/ StartEmit

\* stop_listening
Stop ==
    \/ StopListening
    \/ StopClose

\* any sequence of start_listening and stop_listening calls
Manager ==
    \/ \E acct \in {"found", "missing"} : StartListening(acct, MaxListeners)
    \/ StartEmit
    \/ StartReturn
    \/ Stop

\* The registry and its sessions: callers start and stop the account in any
\* order, up to MaxListeners listener objects live side by side; connects
\* succeed and no mail arrives.
Next ==
    \/ Manager
    \/ \E i \in Inst : LoopServe(i)
    \/ \E i \in Inst : Exit(i)

\* One session and its connection: a connect fails in every way it can, the
\* network drops the connection, the caller stops the session.
NextConnect ==
    \/ StartOnce
    \/ Stop
    \/ \E i \in Inst : LoopServe(i)
    \/ \E i \in Inst : LoopRetry(i)
    \/ \E i \in Inst : Exit(i)
    \/ \E i \in Inst : Drop(i)

\* One running session on a mailbox that receives and loses mail while
\* sync_messages runs beside it and the network drops the connection;
\* start_listening has returned when the session thread takes its first step.
NextIngest ==
    \/ StartOnce
    \/ (mgr_pc = "idle" /\ \E i \in Inst : LoopServe(i))
    \/ \E i \in Inst : LoopMail(i)
    \/ Arrive
    \/ \E u \in Uids : Expunge(u)
    \/ \E ok \in SyncOutcomes : SyncUnobserved(ok)
    \/ \E i \in Inst : Drop(i)

\* One session and its IDLE waits: the wait ends on a notification, on the end
\* of its 29 minutes or on a stop; connects fail, the network drops the
\* connection, mail arrives, the caller stops the session.
NextIdle ==
    \/ StartOnce
    \/ Stop
    \/ \E i \in Inst : LoopTop(i)
    \/ \E i \in Inst, outcome \in ConnectOutcomes, caps \in BOOLEAN : Connect(i, outcome, caps)
    \/ \E i \in Inst : Backoff(i)
    \/ \E i \in Inst : Listen(i)
    \/ \E i \in Inst : Mode(i)
    \/ \E i \in Inst, ev \in {"tick", "expire"} : IdleWaitObserved(i, ev)
    \/ \E i \in Inst : IdleExit(i)
    \/ \E i \in Inst : Poll(i)
    \/ \E i \in Inst : LoopMail(i)
    \/ \E i \in Inst : Exit(i)
    \/ Arrive
    \/ \E i \in Inst : Drop(i)

\* ------------------------------------------------------- parse_email_content
\* The headers of a leaf part that parse_part reads.  walk_parts calls
\* parse_part on the leaves of the message in depth-first order, so a message
\* is the sequence of its leaves in that order, and the text of a leaf is
\* known by its place in the sequence.
NoName == ""           \* part.get_filename() is None
NoCid == ""            \* no Content-ID header
CTypes == {"text/plain", "text/html", "image/png", "application/pdf"}
Filenames == {NoName, "a.png", "a.txt"}
Cids == {NoCid, "<img1>"}
Dispositions == {"", "inline", "attachment"}
\* the decoded payload of a part, known by its first bytes ("" is empty), and
\* the keys of the cid: references in its text, in order
Payloads == {"", "PNG", "JPG", "XYZ"}
Refs == {<<>>, <<"img1">>, <<"img">>}
Leaves ==
    [ctype : CTypes, filename : Filenames, cid : Cids, disp : Dispositions,
     payload : {"PNG"}, refs : {<<>>}]
\* html bodies that refer to images, and image parts with any payload
InlineLeaves ==
    [ctype : {"text/html"}, filename : {NoName}, cid : {NoCid}, disp : {""},
     payload : {"XYZ"}, refs : Refs]
        \cup [ctype : {"image/png"}, filename : {NoName, "a.png"}, cid : Cids,
              disp : {"inline"}, payload : Payloads, refs : {<<>>}]

\* content_type.startswith('image/') or the filename ends with an image extension
IsImage(p) == p.ctype \in {"image/png"} \/ p.filename \in {"a.png"}

\* 'inline' in content_disposition.lower(), on the disposition types above
HasWord(disp, word) == disp = word

\* content_id.strip('<>')
StripCid(cid) == IF cid = "<img1>" THEN "img1" ELSE cid

ClassifyTextFirst(p) ==
    IF IsImage(p) /\ p.cid # NoCid THEN "inline_cid"
    ELSE IF IsImage(p) /\ HasWord(p.disp, "inline") /\ p.filename # NoName
    THEN "inline_name"
    ELSE IF /\ IsImage(p)
            /\ ~HasWord(p.disp, "inline")
            /\ p.filename # NoName
            /\ ~HasWord(p.disp, "attachment")
    THEN "inline_name"
    ELSE IF p.ctype \in {"text/html", "text/plain"} THEN "body"
    ELSE IF p.filename # NoName \/ HasWord(p.disp, "attachment") THEN "attachment"
    ELSE "ignored"
\* the branch parse_part returns from (lines 124-183): the if / elif / elif under
\* `if is_image:`, where the inline branch returns only with a filename, then
\* the attachment test, then the text test
Classify(p) ==
    IF IsImage(p) /\ p.cid # NoCid THEN "inline_cid"
    ELSE IF IsImage(p) /\ HasWord(p.disp, "inline") /\ p.filename # NoName
    THEN "inline_name"
    ELSE IF /\ IsImage(p)
            /\ ~HasWord(p.disp, "inline")
            /\ p.filename # NoName
            /\ ~HasWord(p.disp, "attachment")
    THEN "inline_name"
    ELSE IF p.filename # NoName \/ HasWord(p.disp, "attachment") THEN "attachment"
    ELSE IF p.ctype \in {"text/html", "text/plain"} THEN "body"
    ELSE "ignored"

\* the key of inline_images a part is stored under
InlineKey(p) == IF Classify(p) = "inline_cid" THEN StripCid(p.cid) ELSE p.filename

Overwrite(text, content) == content
\* body += content
Accumulate(text, content) == text \o content

\* walk_parts reaches the next leaf of the message, part, and calls parse_part
\* on it; the accumulators start empty (lines 100-103)
ParsePart(part) ==
    /\ Len(msg_parts) < MaxParts
    /\ ~returned
    /\ LET k == Len(msg_parts) + 1
           class == Classify(part)
       IN  /\ inline_images' =
                  IF class \in {"inline_cid", "inline_name"}
                  THEN {e \in inline_images : e.key # InlineKey(part)}
                           \cup {[key |-> InlineKey(part), part |-> k]}
                  ELSE inline_images
           /\ parsed_attachments' =
                  IF class = "attachment"
                  THEN Append(parsed_attachments,
                              [id |-> k, part |-> k,
                               filename |-> IF part.filename = NoName
                                            THEN "unknown_file" ELSE part.filename])
                  ELSE parsed_attachments
           /\ body' = IF class = "body" /\ part.ctype = "text/plain"
                      THEN Accumulate(body, <<k>>) ELSE body
           /\ body_html' = IF class = "body" /\ part.ctype = "text/html"
                           THEN Accumulate(body_html, <<k>>) ELSE body_html
           /\ html_refs' = IF class = "body" /\ part.ctype = "text/html"
                           THEN Accumulate(html_refs,
                                    [i \in DOMAIN part.refs |->
                                        [t |-> "cid", v |-> part.refs[i]]])
                           ELSE html_refs
           /\ part_class' = Append(part_class,
                  [class |-> IF class \in {"inline_cid", "inline_name"}
                             THEN "inline" ELSE class,
                   key |-> IF class \in {"inline_cid", "inline_name"}
                           THEN InlineKey(part) ELSE NoName])
    /\ msg_parts' = Append(msg_parts, part)
    /\ UNCHANGED <<files, returned>>
    /\ UNCHANGED <<mgr_vars, lsn_vars, env_vars, db_vars, obs_vars>>
    /\ UNCHANGED op_vars
    /\ UNCHANGED aux_vars

\* detect_image_extension (lines 57-68)
DetectImageExtension(data) ==
    IF data = "" THEN "png"
    ELSE IF data = "PNG" THEN "png"
    ELSE IF data = "JPG" THEN "jpg"
    ELSE "png"

\* the file written for the inline image stored under key cid
InlineFile(cid) ==
    LET e == CHOOSE x \in inline_images : x.key = cid
        data == msg_parts[e.part].payload
    IN  [name |-> <<cid, DetectImageExtension(data)>>, data |-> data]

\* open(filepath, 'wb').write(data): the directory after the write
WriteFile(dir, file) == {f \in dir : f.name # file.name} \cup {file}

KeepCid(refs, cid, url) == refs
\* body_html.replace(f'cid:{cid}', img_url), on the references of the text
ReplaceCid(refs, cid, url) ==
    [i \in DOMAIN refs |->
        IF refs[i] = [t |-> "cid", v |-> cid] THEN [t |-> "url", v |-> url]
        ELSE refs[i]]

\* remaining_cid.lower() in stored_cid.lower() or the other way round, on the
\* keys of the model
FuzzyMatch(remaining_cid, stored_cid) ==
    \/ remaining_cid = stored_cid
    \/ <<remaining_cid, stored_cid>> \in {<<"img", "img1">>}

\* the keys of inline_images in the order the dict holds them: by the order of
\* the parts that hold them now
StoredCids ==
    LET at(k) == {e.key : e \in {x \in inline_images : x.part = k}}
        RECURSIVE from(_)
        from(k) == IF k > Len(msg_parts) THEN <<>>
                   ELSE (IF at(k) = {} THEN <<>> ELSE <<CHOOSE c \in at(k) : TRUE>>)
                            \o from(k + 1)
    IN  from(1)

\* the first loop (lines 197-211): every stored image with a non-empty
\* payload is written and its references are replaced
RECURSIVE FirstPass(_, _)
FirstPass(st, cids) ==
    IF cids = <<>> THEN st
    ELSE LET cid == Head(cids)
             file == InlineFile(cid)
         IN  IF file.data = "" THEN FirstPass(st, Tail(cids))
             ELSE FirstPass([refs |-> ReplaceCid(st.refs, cid, file.name),
                             files |-> WriteFile(st.files, file)], Tail(cids))

\* the second loop (lines 213-229): each reference that is left takes the
\* first stored image whose key matches it loosely
RECURSIVE SecondPass(_, _)
SecondPass(st, remaining_cids) ==
    IF remaining_cids = <<>> THEN st
    ELSE LET remaining_cid == Head(remaining_cids)
             hits == SelectSeq(StoredCids, LAMBDA c : FuzzyMatch(remaining_cid, c))
         IN  IF hits = <<>> THEN SecondPass(st, Tail(remaining_cids))
             ELSE LET file == InlineFile(Head(hits))
                  IN  SecondPass([refs |-> ReplaceCid(st.refs, remaining_cid, file.name),
                                  files |-> WriteFile(st.files, file)],
                                 Tail(remaining_cids))

\* re.findall(r'cid:...', body_html)
RemainingCids(refs) ==
    LET left == SelectSeq(refs, LAMBDA r : r.t = "cid")
    IN  [i \in DOMAIN left |-> left[i].v]

\* parse_email_content after walk_parts(msg): the inline images are written
\* out, the references to them are rewritten, and the function returns
Materialize ==
    /\ msg_parts # <<>>
    /\ ~returned
    /\ LET first == FirstPass([refs |-> html_refs, files |-> files], StoredCids)
           second == SecondPass(first, RemainingCids(first.refs))
       IN  /\ html_refs' = second.refs
           /\ files' = second.files
    /\ returned' = TRUE
    /\ UNCHANGED <<msg_parts, body, body_html, parsed_attachments, inline_images,
                   part_class>>
    /\ UNCHANGED <<mgr_vars, lsn_vars, env_vars, db_vars, obs_vars>>
    /\ UNCHANGED op_vars
    /\ UNCHANGED aux_vars

\* One call of parse_email_content, on any message of up to MaxParts leaves.
NextParse == \E part \in Leaves : ParsePart(part)

\* One whole call of parse_email_content, on messages of html bodies that refer
\* to images and of image parts.
NextInline ==
    \/ \E part \in InlineLeaves : ParsePart(part)
    \/ Materialize

\* One running session whose events go to subscribers that take them, fail or
\* block, while mail arrives.
NextSink ==
    \/ StartOnce
    \/ (mgr_pc = "idle" /\ \E i \in Inst : LoopServe(i))
    \/ \E i \in Inst : LoopMail(i)
    \/ \E i \in Inst : EmitReturn(i)
    \/ \E s \in {"ok", "failing", "blocked"} : SinkChange(s)
    \/ Arrive

\* The stored rows: the records listeners fetch and sync_messages ingest the
\* mail that arrives, and the user opens messages, which marks them read.
NextStore ==
    \/ Arrive
    \/ \E u \in Uids, db_ok \in BOOLEAN : OnNewEmail(u, db_ok)
    \/ \E ok \in SyncOutcomes : SyncObserved(ok)
    \/ \E r \in messages : MarkReadLocal(r)

\* One session that the caller stops at any moment of its loop: while it
\* connects, backs off, processes a batch, waits in IDLE or polls.
NextStop ==
    \/ StartOnce
    \/ Stop
    \/ \E i \in Inst : LoopServe(i)
    \/ \E i \in Inst : LoopMail(i)
    \/ \E i \in Inst : LoopRetry(i)
    \/ \E i \in Inst : Exit(i)
    \/ \E i \in Inst : Drop(i)
    \/ Arrive

\* the steps of the threads that mark messages read
MarkRead(c) ==
    \/ MarkViaManager(c)
    \/ \E i \in Inst : MarkDirect(c, i)
    \/ \E noop_ok \in BOOLEAN, connect_ok \in BOOLEAN : OpGet(c, noop_ok, connect_ok)
    \/ \E answer \in StoreAnswers : OpStore(c, answer)

\* One session and its operate connection: up to MaxCallers threads mark
\* messages read, through the manager or on the listener object, while the
\* session runs and is stopped.
NextOperate ==
    \/ StartOnce
    \/ Stop
    \/ \E c \in Callers : MarkRead(c)
    \/ \E i \in Inst : LoopServe(i)
    \/ \E i \in Inst : Exit(i)

\* the program: every listener is constructed without a cursor
Spec == Init /\ [][Next]_vars

SpecConnect == Init /\ [][NextConnect]_vars

SpecOperate == Init /\ [][NextOperate]_vars

\* ingestion, by a fresh session (seed = None) or one whose cursor holds a uid
SpecIngest == InitIngest /\ [][NextIngest]_vars

\* the parser
SpecParse == Init /\ [][NextParse]_vars

\* the parser with the materialization of inline images
SpecInline == Init /\ [][NextInline]_vars

\* ingestion with an event sink that is not always ready
SpecSink == InitIngest /\ [][NextSink]_vars

\* storage, under both ingestion paths and the local read flag
SpecStore == InitIngest /\ [][NextStore]_vars

\* the session thread is scheduled as long as it has a step to take, and every
\* call it makes returns
SpecIdle == InitIngest /\ [][NextIdle]_vars
FairStop ==
    /\ InitIngest
    /\ [][NextStop]_vars
    /\ \A i \in Inst : WF_vars(LoopServe(i) \/ LoopMail(i) \/ LoopRetry(i) \/ Exit(i))

\* --------------------------------------------------------------------- claims
RunningSet == {i \in Inst : running[i]}

\* C1: a second start_listening for a registered account changes nothing: at any
\* time at most one listener object has its running flag set, and while the
\* account is registered that object is the registered one and the number of
\* threads ever spawned is what the spawning call left.
C1_StartIdempotent ==
    /\ Cardinality(RunningSet) <= 1
    /\ (Registered /\ mgr_pc # "stop_close") =>
           /\ RunningSet = {listeners}
           /\ first_start = [inst |-> listeners, spawned |-> Spawned]

\* a second start_listening call has found the account registered, its thread alive
C1_Witness ==
    /\ mgr_pc = "start_noop"
    /\ listeners = 1
    /\ Spawned = 1
    /\ 1 \in Alive

\* C2: at most one idle_loop thread of the account is alive in every state.
C2_OneLoopAlive == Cardinality(Alive) <= 1

\* C3: per (account_id, uid) the store holds at most one message row, exactly one
\* once an insert of the listener path ran for the key, and the attachment rows
\* written for the key are exactly those the stored row lists: those of the
\* insert that took effect (none for a row of the listener path).
C3_OneRowPerKey ==
    /\ \A u \in Uids :
          /\ Cardinality(RowsOf(u)) <= 1
          /\ \A r \in RowsOf(u) :
                /\ {a \in attachments : a.message_id[2] = u} = AttachmentRowsOf(r)
                /\ {a.id : a \in AttachmentRowsOf(r)} = r.attachments
                /\ Cardinality(AttachmentRowsOf(r)) =
                       (IF r.via = "sync" THEN NumAtts(u) ELSE 0)
          /\ RowsOf(u) = {} => {a \in attachments : a.message_id[2] = u} = {}
    /\ \A i \in Inst : \A k \in DOMAIN batch_log[i] :
          batch_log[i][k].outcome \in {"fresh", "dup"} =>
              Cardinality(RowsOf(batch_log[i][k].uid)) = 1

\* the listener path has inserted a key that sync_messages had stored with its
\* attachment rows
C3_Witness ==
    \E i \in Inst : \E k \in DOMAIN batch_log[i] :
        /\ batch_log[i][k].outcome = "dup"
        /\ \E r \in RowsOf(batch_log[i][k].uid) :
              r.via = "sync" /\ AttachmentRowsOf(r) # {}

C5_FreshSessionIngests ==
    \A i \in Inst :
        (seed = None /\ pc[i] = "reidle" /\ idle_conn[i] = "selected") =>
            \A u \in mailbox : RowsOf(u) # {}

\* every uid of the batch was fetched, its key was not stored and the insert ran
CleanBatch(i) ==
    /\ Len(batch_log[i]) = Len(batch_uids[i])
    /\ \A k \in DOMAIN batch_log[i] : batch_log[i][k].outcome = "fresh"

\* C6: when a batch of uids has been processed with every fetch and every insert
\* succeeding on keys not stored before, each uid was handled once and in the
\* order of the answer, which is ascending; each has its row from the listener
\* path and its new_email event; and the cursor is the highest uid of the batch.
C6_BatchIngested ==
    \A i \in Inst :
        (pc[i] \in {"mode", "reidle"} /\ batch_uids[i] # <<>> /\ CleanBatch(i)) =>
            /\ \A k \in DOMAIN batch_uids[i] :
                  /\ batch_log[i][k].uid = batch_uids[i][k]
                  /\ batch_log[i][k].emitted
                  /\ new_email_count[batch_uids[i][k]] = 1
                  /\ \E r \in RowsOf(batch_uids[i][k]) : r.via = "idle"
            /\ \A k, l \in DOMAIN batch_uids[i] :
                  k < l => batch_uids[i][k] < batch_uids[i][l]
            /\ last_processed_uid[i] = Max(Range(batch_uids[i]))

\* two uids above the cursor the session was constructed with were ingested in
\* one batch
C6_Witness ==
    \E i \in Inst :
        /\ pc[i] \in {"mode", "reidle"}
        /\ Len(batch_uids[i]) >= 2
        /\ CleanBatch(i)
        /\ seed # None
        /\ \A k \in DOMAIN batch_uids[i] : batch_uids[i][k] > seed

\* C7: a session whose login was rejected (it holds the connection object of
\* that attempt) has reported error and left its loop.
C7_AuthFailureTerminal ==
    \A i \in Inst :
        idle_conn[i] = "nonauth" =>
            /\ pc[i] \in {"exit", "done"}
            /\ status[i] \in {"error", "stopped"}

\* C8: a session never has more than max_retries consecutive failed connects; the
\* failed connect that reaches max_retries reports error and leaves the loop, an
\* earlier one goes to the backoff sleep without reporting error.
C8_RetryCap ==
    [][\A i \in Inst :
          /\ failed_connects'[i] <= max_retries
          /\ failed_connects'[i] > failed_connects[i] =>
                IF failed_connects'[i] >= max_retries
                THEN pc'[i] = "exit" /\ status'[i] = "error"
                ELSE pc'[i] = "backoff" /\ status'[i] # "error"]_vars

\* the fifth consecutive failed connect has ended the loop with status error
C8_Witness ==
    \E i \in Inst :
        /\ failed_connects[i] = max_retries
        /\ pc[i] = "exit"
        /\ status[i] = "error"

\* C9: the new_email events of a key are as many as its rows written by the
\* listener path, so at most one; and a processed uid was announced exactly when
\* its insert took effect, not on a dedup hit, a storage failure or a failed fetch.
C9_EventIffInserted ==
    /\ \A u \in Uids :
          /\ new_email_count[u] = Cardinality({r \in RowsOf(u) : r.via = "idle"})
          /\ new_email_count[u] <= 1
    /\ \A i \in Inst : \A k \in DOMAIN batch_log[i] :
          batch_log[i][k].emitted <=> batch_log[i][k].outcome = "fresh"

\* a uid already announced was processed again and not announced a second time
C9_Witness ==
    \E i \in Inst : \E k \in DOMAIN batch_log[i] :
        /\ batch_log[i][k].outcome = "dup"
        /\ ~batch_log[i][k].emitted
        /\ new_email_count[batch_log[i][k].uid] = 1

\* C10: once stop() has cleared the running flag of a started session, its loop
\* reaches its end, having reported stopped.
C10_StopTerminates ==
    \A i \in Inst :
        (pc[i] # "none" /\ ~running[i]) ~> (pc[i] = "done" /\ status[i] = "stopped")

\* a session stopped while it was processing a batch has ended
C10_Witness ==
    \E i \in Inst :
        /\ ~running[i]
        /\ pc[i] = "done"
        /\ status[i] = "stopped"
        /\ last_processed_uid[i] # seed

\* C11: when stop() has returned for a session and its loop has ended, the
\* session holds neither a watch connection nor an operate connection.
C11_NoLeakedConnection ==
    \A i \in Inst :
        (pc[i] = "done" /\ ~running[i] /\ listeners # i) =>
            /\ idle_conn[i] = "None"
            /\ operation_conn[i] = NoConn

\* C12: a mark_as_read call ends with True or False, never with an exception;
\* it ends with False for an account that is not registered, when no operate
\* connection could be had and when the STORE went to a closed connection; it
\* ends with True only after a STORE on an open connection; and a call that
\* ends with False leaves the registry and the watch connections as they were.
C12_MarkAsReadNeverRaises ==
    [][\A c \in Callers :
          /\ op_ret'[c] \in {"none", "True", "False"}
          /\ (op_pc[c] = "idle" /\ op_pc'[c] = "idle" /\ op_ret'[c] # op_ret[c]) =>
                 (~Registered /\ op_ret'[c] = "False")
          /\ (op_pc[c] = "get" /\ op_pc'[c] = "idle") =>
                 (op_ret'[c] = "False" /\ operation_conn'[op_tgt[c]] = NoConn)
          /\ (op_pc[c] = "store" /\ op_pc'[c] = "idle" /\ ~OpAlive(op_conn[c])) =>
                 op_ret'[c] = "False"
          /\ (op_pc[c] = "store" /\ op_pc'[c] = "idle" /\ op_ret'[c] = "True") =>
                 OpAlive(op_conn[c])
          /\ (op_ret'[c] = "False" /\ op_ret[c] # "False") =>
                 (listeners' = listeners /\ idle_conn' = idle_conn)]_vars

\* a call through the manager on a registered account has ended with False
\* (its STORE raised, or the stored connection did not answer and no new one
\* could be had) and the account is still registered
C12_Witness ==
    \E c \in Callers :
        /\ op_ret[c] = "False"
        /\ op_via[c]
        /\ op_pc[c] = "idle"
        /\ conns_made > 0
        /\ operation_conn[op_tgt[c]] = NoConn
        /\ listeners = op_tgt[c]

\* C13: a session that has emitted error emits no other status afterwards.
C13_ErrorIsTerminal ==
    [][\A i \in Inst : status[i] = "error" => status'[i] = "error"]_vars

\* C14: after a session's loop has ended on the retry cap, is_listening is false.
C14_ErroredSessionDestroyed ==
    \A i \in Inst :
        (pc[i] = "done" /\ failed_connects[i] >= max_retries /\ listeners = i) =>
            ~IsListening

\* C15: get_status returns the last status the registered session's loop emitted.
C15_GetStatusIsLastEmitted ==
    (Registered /\ status[listeners] # "none") => GetStatus = status[listeners]

\* the loop is about to run a command on a watch connection that is dead
FailedCommand(i) ==
    /\ idle_conn[i] = "dead"
    /\ \/ pc[i] = "mode" /\ supports_idle[i]
       \/ pc[i] = "poll" /\ running[i]

\* C16: a command that fails on a dead watch connection makes the loop emit
\* reconnecting, drop the connection and count one retry.
C16_ErrorReconnects ==
    [][\A i \in Inst :
          (FailedCommand(i) /\ pc'[i] # pc[i]) =>
              /\ status'[i] = "reconnecting"
              /\ idle_conn'[i] = "None"
              /\ retry_count'[i] = retry_count[i] + 1]_vars

\* C17: a uid whose fetch or parse fails is skipped alone: while a batch is
\* processed and when it has ended every uid of the answer has its turn, in
\* order; each later uid that is fetched and new is stored and announced; the
\* session still reports listening and no retry was counted.
C17_FailedFetchSkippedAlone ==
    \A i \in Inst :
        (pc[i] \in {"batch", "idle_batch", "mode", "reidle"} /\ batch_uids[i] # <<>>) =>
            /\ Len(batch_log[i]) + Len(new_uids[i]) = Len(batch_uids[i])
            /\ pc[i] \in {"mode", "reidle"} => new_uids[i] = <<>>
            /\ \A k \in DOMAIN batch_log[i] :
                  /\ batch_log[i][k].uid = batch_uids[i][k]
                  /\ batch_log[i][k].outcome = "fresh" =>
                        /\ batch_log[i][k].emitted
                        /\ RowsOf(batch_uids[i][k]) # {}
            /\ status[i] = "listening"
            /\ retry_count[i] = 0

\* the first uid of a batch could not be fetched and the second was ingested
C17_Witness ==
    \E i \in Inst :
        /\ pc[i] \in {"mode", "reidle"}
        /\ Len(batch_log[i]) >= 2
        /\ batch_log[i][1].outcome = "nofetch"
        /\ batch_log[i][2].outcome = "fresh"
        /\ batch_log[i][2].emitted

\* C18: a session in the poll branch on a connection whose server does not
\* offer IDLE has reported polling.
C18_ReportsPolling ==
    \A i \in Inst :
        (pc[i] = "poll" /\ idle_conn[i] = "selected" /\ failed_connects[i] = 0) =>
            status[i] = "polling"

\* a thread holding self.lock is inside a network call: the logout of a watch
\* connection, or NOOP, connect, login and STORE on the operate connection
BlockingIO ==
    \/ mgr_pc = "stop_close" /\ idle_conn[listeners] # "None"
    \/ \E c \in Callers : op_via[c] /\ op_pc[c] \in {"get", "store"}

\* C19: no thread is inside a blocking network call while it holds self.lock.
C19_LockNotAcrossIO == ~(LockHeld /\ BlockingIO)

InBlockingCall(i) == pc[i] \in {"idle_wait", "poll"} /\ idle_conn[i] # "None"

\* C21: stop() only flips the running flag: the thread that called it never
\* logs out of or clears the watch connection while the loop thread is inside a
\* blocking call on it; the connection is closed only by the loop thread, after
\* it has observed the flag.
C21_StopOnlyFlipsFlag ==
    [][(mgr_pc = "stop_close" /\ mgr_pc' = "idle")
          => /\ ~InBlockingCall(listeners)
             /\ idle_conn'[listeners] = idle_conn[listeners]]_vars

\* C22: attachment rows are written only when the insert of their message took
\* effect: every attachment row names a stored message row, a step that adds
\* attachment rows adds their message row too, and an insert of sync_messages
\* that was ignored against an existing row leaves that row's attachment rows
\* as they were.
C22_AttachmentsFollowInsert ==
    [][/\ \A a \in attachments' :
             /\ \E r \in messages' : r.id = a.message_id
             /\ a \notin attachments =>
                    \E r \in messages' \ messages : r.id = a.message_id
       /\ \A r \in sync_hits' :
             {a \in attachments' : a.message_id = r.id} = AttachmentRowsOf(r)]_vars

\* sync_messages met the stored row of a message that carries attachments
C22_Witness ==
    \E r \in sync_hits : NumAtts(r.uid) > 0 /\ r \in messages

\* C23: an insert for a key that already has a row leaves the stored row as it is:
\* no step removes a row or changes its id, bodies or attachments field, and the
\* only change a row ever sees is its read flag going to 1; a row that is marked
\* read stays read through every later ingestion of its message.
C23_ReinsertIsNoOp ==
    [][\A r \in messages :
          \/ r \in messages'
          \/ /\ r.is_read = 0
             /\ [r EXCEPT !.is_read = 1] \in messages'
             /\ Cardinality(messages') = Cardinality(messages)]_vars

\* a row the listener path stored was marked read and sync_messages then
\* ingested the same message: the row is still there and still read
C23_Witness ==
    \E h \in sync_hits :
        /\ h.is_read = 1
        /\ h \in messages
        /\ new_email_count[h.uid] = 1
        /\ h.via = "idle"

\* C26: every stored row has a plain body of at most 10,000 characters and an
\* html body of at most 50,000, each a prefix of the text parsed for that
\* message, and every row is inserted with its read flag false.
C26_BodiesTruncated ==
    [][\A r \in messages' :
          /\ r.body.len <= BodyLimit
          /\ r.body_html.len <= HtmlLimit
          /\ IsPrefixOf(r.body, ParsedBody(r.via, r.uid))
          /\ IsPrefixOf(r.body_html, ParsedHtml(r.via, r.uid))
          /\ (\A x \in messages : x.id # r.id) => r.is_read = 0]_vars

\* both paths have stored a message whose parsed texts are longer than the
\* limits, and one whose texts are shorter
C26_Witness ==
    /\ \E r \in messages : /\ r.via = "idle"
                           /\ ParsedBody(r.via, r.uid).len > BodyLimit
                           /\ ParsedHtml(r.via, r.uid).len > HtmlLimit
                           /\ r.body.len = BodyLimit
                           /\ r.body_html.len = HtmlLimit
    /\ \E r \in messages : /\ r.via = "sync"
                           /\ r.body.len < BodyLimit
                           /\ r.body = ParsedBody(r.via, r.uid)

\* C24: after every successful connect or reconnect, before the session waits
\* or polls, its search answer holds every uid of the mailbox above its cursor
\* (with no cursor yet, every uid), and the cursor is carried unchanged through
\* disconnects and reconnects: only the processing of a batch moves it.
C24_ReconnectCatchesUp ==
    [][\A i \in Inst :
          /\ (pc[i] = "listen" /\ pc'[i] # "listen" /\ CanCommand(idle_conn[i]))
                => \A u \in mailbox :
                       u > last_processed_uid[i] => u \in Range(new_uids'[i])
          /\ pc[i] \notin {"none", "batch", "idle_batch"}
                => last_processed_uid'[i] = last_processed_uid[i]]_vars

C27_BackoffLinear ==
    \A i \in Inst :
        /\ last_sleep[i] # 0 =>
               /\ failed_connects[i] \in 1 .. 4
               /\ last_sleep[i] = 5 * failed_connects[i]
        /\ pc[i] = "backoff" => failed_connects[i] < 5
        /\ (status[i] = "error" /\ pc[i] = "exit") =>
               (failed_connects[i] = 5 /\ last_sleep[i] = 0)

\* the session has slept 20 seconds after its fourth failed connect in a row
C27_Witness ==
    \E i \in Inst : last_sleep[i] = 20 /\ failed_connects[i] = 4 /\ pc[i] = "top"

\* C28: every image leaf (image content type or image-extension filename) with
\* no content-id and disposition inline is collected as an inline image keyed
\* by its filename; it is neither an attachment nor ignored.
C28_InlineImageCollected ==
    \A k \in DOMAIN part_class :
        LET p == msg_parts[k]
        IN  (IsImage(p) /\ p.cid = NoCid /\ p.disp = "inline") =>
                /\ part_class[k].class = "inline"
                /\ part_class[k].key = p.filename
                /\ p.filename # NoName

\* the places of the attachment records made for leaf k
AttachmentsOf(k) ==
    {j \in DOMAIN parsed_attachments : parsed_attachments[j].part = k}

\* C29: between the attachment rule and the body rule the first match wins: a
\* leaf that is not classified as an inline image and has a filename or an
\* attachment disposition yields exactly one attachment record and no body
\* text, also when it is text/plain or text/html; and every leaf falls into
\* exactly one of inline image, attachment, body text or ignored.
C29_FirstMatchWins ==
    \A k \in DOMAIN part_class :
        LET p == msg_parts[k]
            c == part_class[k].class
            inBody == k \in Range(body)
            inHtml == k \in Range(body_html)
            inInline == \E e \in inline_images : e.part = k
        IN  /\ c \in {"inline", "attachment", "body", "ignored"}
            /\ (c # "inline" /\ (p.filename # NoName \/ p.disp = "attachment"))
                   => /\ Cardinality(AttachmentsOf(k)) = 1
                      /\ ~inBody /\ ~inHtml /\ ~inInline
            /\ Cardinality(AttachmentsOf(k)) = (IF c = "attachment" THEN 1 ELSE 0)
            /\ (inBody \/ inHtml) <=> c = "body"
            /\ ~(inBody /\ inHtml)
            /\ inInline => c = "inline"

\* a text/plain leaf with a filename became an attachment, beside a text/plain
\* leaf that went to the body
C29_Witness ==
    \E k, j \in DOMAIN part_class :
        /\ msg_parts[k].ctype = "text/plain"
        /\ msg_parts[k].filename = "a.txt"
        /\ part_class[k].class = "attachment"
        /\ Cardinality(AttachmentsOf(k)) = 1
        /\ msg_parts[j].ctype = "text/plain"
        /\ body = <<j>>

\* the leaves of content type ctype that are body text: no filename and no
\* attachment disposition
BodyPartsOf(ctype) ==
    {k \in DOMAIN msg_parts : /\ msg_parts[k].ctype = ctype
                              /\ msg_parts[k].filename = NoName
                              /\ msg_parts[k].disp # "attachment"}

C31_InlineImageResolved ==
    returned =>
        \A e \in inline_images :
            LET p == msg_parts[e.part]
            IN  (p.cid # NoCid /\ e.key = "img1" /\ p.payload # "") =>
                    /\ \A i \in DOMAIN html_refs :
                           html_refs[i] # [t |-> "cid", v |-> "img1"]
                    /\ \E f \in files :
                           /\ f.data = p.payload
                           /\ f.name[1] = "img1"
                           /\ p.payload = "PNG" => f.name[2] = "png"
                           /\ p.payload = "JPG" => f.name[2] = "jpg"

\* the call returned for a message whose html part referred to cid:img1 and
\* whose image part img1 carried a JPEG payload: the reference is now the URL
\* of the file
C31_Witness ==
    /\ returned
    /\ \E k \in DOMAIN msg_parts :
          /\ msg_parts[k].refs = <<"img1">>
          /\ part_class[k].class = "body"
    /\ \E e \in inline_images : e.key = "img1" /\ msg_parts[e.part].payload = "JPG"
    /\ html_refs = <<[t |-> "url", v |-> <<"img1", "jpg">>]>>

\* C32: a mark_as_read call ends with True only when the server answered OK to
\* its UID STORE; a NO or BAD answer ends the call with False.
C32_TrueOnlyIfAccepted ==
    \A c \in Callers :
        /\ op_ret[c] = "True" => op_answer[c] = "OK"
        /\ op_answer[c] \in {"NO", "BAD"} => op_ret[c] = "False"

\* the socket of a watch connection is open
Live(c) == c \in {"nonauth", "auth", "selected"}

\* C33: the end of the 29 minutes of an IDLE wait is not an error: as long as
\* the session is running and its connection lives, the wait is ended with DONE
\* and the steps that follow leave the retry count and the watch connection as
\* they were, emit neither reconnecting nor error, go neither to connect nor to
\* the backoff nor to the end of the loop, and issue IDLE again on that
\* connection.
C33_ExpiryIsNotAnError ==
    [][\A i \in Inst :
          /\ (expired'[i] /\ pc[i] = "idle_wait" /\ pc'[i] # pc[i]) =>
                 /\ pc'[i] = "idle_exit"
                 /\ retry_count'[i] = retry_count[i]
                 /\ idle_conn'[i] = idle_conn[i]
                 /\ status'[i] = status[i]
          /\ (expired[i] /\ running[i] /\ Live(idle_conn[i]) /\ pc'[i] # pc[i]) =>
                 /\ retry_count'[i] = retry_count[i]
                 /\ idle_conn'[i] = idle_conn[i]
                 /\ status'[i] \in {status[i], "listening"}
                 /\ pc'[i] \notin {"connect", "backoff", "exit"}
                 /\ (pc[i] = "idle_exit" => ~idle_out'[i])
                 /\ (pc[i] = "mode" => (pc'[i] = "idle_wait" /\ idle_out'[i]))]_vars

\* a wait ended on its 29 minutes and the session waits in a new IDLE on the
\* connection it had
C33_Witness ==
    \E i \in Inst :
        /\ expired[i]
        /\ pc[i] = "idle_wait"
        /\ idle_out[i]
        /\ running[i]
        /\ Live(idle_conn[i])

\* the step sends DONE on the watch connection of i: the loop on a notification
\* (line 323) or after the inner while (line 349), stop() (line 402)
SendsDone(i) ==
    /\ Live(idle_conn[i])
    /\ \/ pc[i] = "idle_wait" /\ pc'[i] = "notified"
       \/ pc[i] = "idle_exit" /\ pc'[i] = "top"
       \/ mgr_pc = "stop_close" /\ mgr_pc' = "idle" /\ listeners = i

\* the step sends IDLE (lines 307 and 341)
SendsIdle(i) ==
    /\ Live(idle_conn[i])
    /\ pc'[i] # pc[i]
    /\ \/ pc[i] = "mode" /\ supports_idle[i]
       \/ pc[i] = "reidle"

\* the step sends SEARCH (lines 291, 328), FETCH (fetch_new_email) or SELECT
\* (line 363)
SendsCommand(i) ==
    /\ Live(idle_conn[i])
    /\ \/ pc[i] \in {"listen", "notified"} /\ pc'[i] # pc[i]
                                          /\ HasCursor(last_processed_uid[i])
       \/ pc[i] \in {"batch", "idle_batch"} /\ new_uids'[i] # new_uids[i]
       \/ pc[i] = "poll" /\ pc'[i] # pc[i] /\ running[i]

\* C34: on the watch connection DONE is sent only while an IDLE is outstanding,
\* and IDLE, SEARCH, FETCH and SELECT are sent only while none is, whichever
\* thread sends them.
C34_IdleProtocolRespected ==
    [][\A i \in Inst :
          /\ SendsDone(i) => idle_out[i]
          /\ SendsIdle(i) => ~idle_out[i]
          /\ SendsCommand(i) => ~idle_out[i]]_vars

\* C35: a session is at on_status_change('listening'), at the mode test, in an
\* IDLE wait or in the poll sleep only with a retry count of 0 and never with
\* a watch connection that a failed connect() left behind (login or SELECT did
\* not succeed on it).
C35_ListensOnlyConnected ==
    \A i \in Inst :
        pc[i] \in {"listen", "mode", "idle_wait", "poll"} =>
            /\ retry_count[i] = 0
            /\ idle_conn[i] \notin {"nonauth", "auth"}

Announced(i) == pc[i] # "none" /\ ~(listeners = i /\ mgr_pc = "start_emit")

\* a status-changed event of session i has been emitted, by its loop or by
\* start_listening
HasSpoken(i) == status[i] # "none" \/ Announced(i)

\* C37: once a session started after a stop has emitted a status, the loop of
\* an earlier session of the account emits no stopped, reconnecting or error.
C37_OldSessionSilent ==
    [][\A i \in Inst, j \in Inst :
          (i < j /\ HasSpoken(j)) =>
              ~(status'[i] # status[i]
                  /\ status'[i] \in {"stopped", "reconnecting", "error"})]_vars

\* C38: the first status emitted for a session is connecting, and the
\* connecting that start_listening emits for a session does not come after a
\* listening, error or stopped of that session's loop.
C38_ConnectingComesFirst ==
    [][/\ \A i \in Inst :
             (status[i] = "none" /\ status'[i] # "none") =>
                 (status'[i] = "connecting" \/ Announced(i))
       /\ (mgr_pc = "start_emit" /\ mgr_pc' = "idle") =>
              status[listeners] \in {"none", "connecting"}]_vars

\* C39: at no time are two operate connections of the account open: a cached
\* connection that is dropped has been closed, or is dead, when its
\* replacement is made.
C39_OneOperateConn == Cardinality(conn_open) <= 1

\* C40: whichever path stored the row of a message, the row lists the
\* attachments of the message and email_attachments holds one row for each.
C40_SameResultEitherPath ==
    \A r \in messages :
        /\ Cardinality(r.attachments) = NumAtts(r.uid)
        /\ Cardinality(AttachmentRowsOf(r)) = NumAtts(r.uid)

====
